---- MODULE Spec2Model ----
(***************************************************************************)
(* Model of flexget/components/ftp/sftp.py: the retrying connection helper *)
(* sftp_connect and the plugins sftp_download (Spec, SpecConnect, and      *)
(* SpecFile for download_file alone), sftp_list (SpecList) and sftp_upload *)
(* (SpecUpload).                                                           *)
(*                                                                         *)
(* A remote path is the sequence of its segments (<<"r","d","b">> is       *)
(* /r/d/b).  An entry's url is given by the components urlparse yields.    *)
(* Every call on the pysftp session may raise a transport error; the call  *)
(* that raises during one download_entry invocation is the fault f.        *)
(***************************************************************************)
EXTENDS Integers, Sequences, FiniteSets, TLC

\* ------------------------------------------------------------------ bounds
MaxEntries == 4        \* longest task.accepted the model feeds
MaxFaults == 1         \* invocations (download_entry, a root's walk, handle_entry,
                       \* download_file) in which a session call raises
MaxFaultyEntries == 2  \* longest task.accepted in which a session call raises

\* --------------------------------------------------- retry configuration
CONNECT_TRIES == 3
RETRY_INTERVAL == 15
RETRY_STEP == 5
DEFAULT_PORT == 22

\* Python's None, and the empty ConnectionConfig get_sftp_config returns
NONE == "None"
NoConfig == <<>>

\* ------------------------------------------------------------ path helpers
Front(p) == SubSeq(p, 1, Len(p) - 1)
Last(p) == p[Len(p)]

\* remotepath.dirname / remotepath.basename / remotepath.split on segments
RemoteDirname(p) == IF p = <<>> THEN <<>> ELSE Front(p)
RemoteBasename(p) == IF p = <<>> THEN <<>> ELSE <<Last(p)>>
RemoteSplit(p) == <<RemoteDirname(p), RemoteBasename(p)>>
\* localpath.join(a, b)
LocalJoin(a, b) == a \o b
\* the session resolves a relative path against its working directory
Resolve(cwd, p) == cwd \o p

\* ------------------------------------------------------ remote file system
\* the nodes the server may hold, and the kind of each (S_ISREG / S_ISDIR)
Nodes ==
  { <<"r">>, <<"r", "a">>, <<"r", "d">>, <<"r", "d", "b">>,
    <<"r", "d", "s">>, <<"r", "d", "s", "c">>, <<"r", "d", "u">> }
\* (/r/n and /r/n/m are directories sftp_upload creates, f and g files it puts)
NodeKind(p) ==
  IF p \in { <<"r">>, <<"r", "d">>, <<"r", "d", "s">>, <<"r", "n">>, <<"r", "n", "m">> }
    THEN "dir"
  ELSE IF p \in { <<"r", "a">>, <<"r", "d", "b">>, <<"r", "d", "s", "c">>,
                  <<"r", "d", "f">>, <<"r", "d", "g">>,
                  <<"r", "n", "m", "f">>, <<"r", "n", "m", "g">> } THEN "file"
  ELSE "unknown"

\* lstat(p).st_size: the files have 10, 20 and 30 bytes; what the server
\* reports for a directory or a special node depends on its file system (n)
Sizes(n) ==
  [p \in Nodes |->
     IF p = <<"r", "a">> THEN 10
     ELSE IF p = <<"r", "d", "b">> THEN 20
     ELSE IF p = <<"r", "d", "s", "c">> THEN 30
     ELSE n]

\* the order sorted() gives the names of a listing
Rank(n) ==
  CASE n = "a" -> 1 [] n = "b" -> 2 [] n = "c" -> 3 [] n = "d" -> 4
    [] n = "r" -> 5 [] n = "s" -> 6 [] n = "u" -> 7 [] OTHER -> 8

RECURSIVE SortNames(_)
SortNames(S) ==
  IF S = {} THEN <<>>
  ELSE LET m == CHOOSE x \in S : \A y \in S : Rank(x) <= Rank(y)
       IN <<m>> \o SortNames(S \ {m})

\* sftp.listdir(dir): the sorted names of the children of dir
Children(dir, remote) == { p \in remote : Len(p) = Len(dir) + 1 /\ Front(p) = dir }
listdir(dir, remote) == SortNames({ Last(p) : p \in Children(dir, remote) })

\* sftp.lexists / sftp.isfile / sftp.isdir
lexists(p, remote) == p = <<>> \/ p \in remote
isfile(p, remote) == p \in remote /\ NodeKind(p) = "file"
isdir(p, remote) == p = <<>> \/ (p \in remote /\ NodeKind(p) = "dir")

\* --------------------------------------------------------------- faults
NoFault == <<"none", <<>> >>
Sites ==
  { "lexists", "isfile", "isdir", "cwd", "listdir", "stat", "get", "getpartial",
    "remove", "exists", "prune_listdir", "rmdir" }
FaultPaths == Nodes \cup { <<>> }
FaultPoints == ({"render"} \X {<<>>}) \cup (Sites \X FaultPaths)
Hits(f, site, p) == f = <<site, p>>

\* ----------------------------------------------------- local file system
\* the rendered destination directory (config['to'])
TO == <<"to">>

\* The effect of the session calls of one download_entry invocation:
\*   remote, local  the two file systems
\*   gets           completed byte copies per destination
\*   calls          one record per download_file call
\*   pruned         remote directories removed by remove_dir
\*   raised         an exception is propagating
\*   hit            the fault of this invocation was raised
Raise(w, byFault) == [w EXCEPT !.raised = TRUE, !.hit = @ \/ byFault]
Logged(w) == [w EXCEPT !.hit = TRUE]
FileCall(src, dest, existed, copied, partial, removed) ==
  [src |-> src, dest |-> dest, existed |-> existed, copied |-> copied,
   partial |-> partial, removed |-> removed]
Record(w, c) == [w EXCEPT !.calls = Append(@, c)]

\* one more completed byte copy to destination
Copies(gets, destination) == IF destination \in DOMAIN gets THEN gets[destination] ELSE 0
Counted(gets, destination) ==
  [d \in DOMAIN gets \cup {destination} |->
     IF d = destination THEN Copies(gets, d) + 1 ELSE gets[d]]

\* SftpDownload.remove_dir: remove a directory if it is empty
remove_dir(w, path, f) ==
  IF Hits(f, "exists", path) THEN Raise(w, TRUE)
  ELSE IF ~lexists(path, w.remote) THEN w
  ELSE IF Hits(f, "prune_listdir", path) THEN Raise(w, TRUE)
  ELSE IF listdir(path, w.remote) # <<>> THEN w
  ELSE IF Hits(f, "rmdir", path) THEN Logged(w)
  ELSE [w EXCEPT !.remote = @ \ {path}, !.pruned = @ \cup {path}]

\* a download_file that never finds the destination and copies again
DestinationExists_Never(local, destination) == FALSE

\* download_file, line 354: the destination is already there
DestinationExists(local, destination) == destination \in local

\* a download_file that leaves the partially downloaded file behind
RemovePartial_Keep(local, destination) == local

\* download_file, lines 367-369: remove the partially downloaded file
RemovePartial(local, destination) ==
  IF destination \in local THEN local \ {destination} ELSE local

\* a download_file that goes on pruning with the directory above
DeleteOrigin_Ancestors(w, abs, absdir, call, f) ==
  IF Hits(f, "remove", abs) THEN Record(Logged(w), call)
  ELSE remove_dir(remove_dir(Record([w EXCEPT !.remote = @ \ {abs}],
                                    [call EXCEPT !.removed = TRUE]), absdir, f),
                  Front(absdir), f)

\* download_file, lines 372-380: delete the origin, then prune its directory
DeleteOrigin(w, abs, absdir, call, f) ==
  IF Hits(f, "remove", abs) THEN Record(Logged(w), call)
  ELSE remove_dir(Record([w EXCEPT !.remote = @ \ {abs}],
                        [call EXCEPT !.removed = TRUE]), absdir, f)

\* SftpDownload.download_file(path, dest, sftp, delete_origin); the session's
\* working directory is cwd and path is relative to it
download_file(w, cwd, path, dest, delete_origin, f) ==
  LET abs == Resolve(cwd, path)
      dir_name == RemoteDirname(path)
      parts == RemoteSplit(path)
      dest_relpath == LocalJoin(parts[1], parts[2])
      destination == LocalJoin(dest, dest_relpath)
      call == FileCall(abs, destination, FALSE, FALSE, FALSE, FALSE)
  IN IF DestinationExists(w.local, destination)
       THEN Record(w, [call EXCEPT !.existed = TRUE])
     ELSE IF Hits(f, "get", abs)
       THEN Raise(Record(w, call), TRUE)
     ELSE IF ~isfile(abs, w.remote)
       THEN Raise(Record(w, call), FALSE)
     ELSE IF Hits(f, "getpartial", abs)
       THEN LET written == w.local \cup {destination}
            IN Raise(Record([w EXCEPT !.local = RemovePartial(written, destination)],
                            [call EXCEPT !.partial = TRUE]), TRUE)
     ELSE LET w1 == [w EXCEPT !.local = @ \cup {destination},
                              !.gets = Counted(@, destination)]
              done == [call EXCEPT !.copied = TRUE]
          IN IF delete_origin
               THEN DeleteOrigin(w1, abs, Resolve(cwd, dir_name), done, f)
               ELSE Record(w1, done)

\* sftp.walktree(remotepath, fcallback=download_file, dcallback=handle_dir,
\* ucallback=handle_unknown, recurse): depth first, in listing order
RECURSIVE walktree(_, _, _, _, _, _, _)
RECURSIVE WalkNames(_, _, _, _, _, _, _, _)
walktree(w, cwd, remotepath, dest, delete_origin, recurse, f) ==
  LET abs == Resolve(cwd, remotepath)
  IN IF Hits(f, "listdir", abs) THEN Raise(w, TRUE)
     ELSE IF ~isdir(abs, w.remote) THEN Raise(w, FALSE)
     ELSE WalkNames(w, cwd, remotepath, listdir(abs, w.remote),
                    dest, delete_origin, recurse, f)
WalkNames(w, cwd, dir, names, dest, delete_origin, recurse, f) ==
  IF names = <<>> \/ w.raised THEN w
  ELSE LET pathname == dir \o <<Head(names)>>
           abs == Resolve(cwd, pathname)
           w1 == IF Hits(f, "stat", abs) THEN Raise(w, TRUE)
                 ELSE IF abs \notin w.remote THEN Raise(w, FALSE)
                 ELSE IF NodeKind(abs) = "dir"
                   THEN IF recurse
                          THEN walktree(w, cwd, pathname, dest, delete_origin, recurse, f)
                          ELSE w
                 ELSE IF NodeKind(abs) = "file"
                   THEN download_file(w, cwd, pathname, dest, delete_origin, f)
                 ELSE w
       IN WalkNames(w1, cwd, dir, Tail(names), dest, delete_origin, recurse, f)

\* the result of download_entry: the world, entry.fail's message kind ("" when
\* entry.fail was not called), whether an exception left download_entry, and
\* whether the remote path was found missing
Result(w, fail, escaped, missing) ==
  [w |-> [w EXCEPT !.raised = FALSE], fail |-> fail, escaped |-> escaped,
   missing |-> missing]

\* SftpDownload.download_entry(entry, config, sftp)
download_entry(entry, config, w, f) ==
  LET path == entry.path
      delete_origin == config.delete_origin
      recursive == config.recursive
      to == TO
  IN IF Hits(f, "render", <<>>) THEN Result(Logged(w), "render", FALSE, FALSE)
     ELSE IF Hits(f, "lexists", path) THEN Result(Logged(w), "", TRUE, FALSE)
     ELSE IF ~lexists(path, w.remote) THEN Result(w, "", FALSE, TRUE)
     ELSE IF Hits(f, "isfile", path) THEN Result(Logged(w), "", TRUE, FALSE)
     ELSE IF isfile(path, w.remote)
       THEN LET source_file == RemoteBasename(path)
                source_dir == RemoteDirname(path)
                w1 == IF Hits(f, "cwd", source_dir) THEN Raise(w, TRUE)
                      ELSE download_file(w, source_dir, source_file, to, delete_origin, f)
            IN Result(w1, IF w1.raised THEN "file" ELSE "", FALSE, FALSE)
     ELSE IF Hits(f, "isdir", path) THEN Result(Logged(w), "", TRUE, FALSE)
     ELSE IF isdir(path, w.remote)
       THEN LET base_path == RemoteDirname(path)
                dir_name == RemoteBasename(path)
                w1 == IF Hits(f, "cwd", base_path) THEN Raise(w, TRUE)
                      ELSE walktree(w, base_path, dir_name, to, delete_origin, recursive, f)
            IN IF w1.raised THEN Result(w1, "dir", FALSE, FALSE)
               ELSE IF delete_origin
                 THEN LET w2 == remove_dir(w1, path, f)
                      IN Result(w2, "", w2.raised, FALSE)
               ELSE Result(w1, "", FALSE, FALSE)
     ELSE Result(w, "", FALSE, FALSE)

\* ------------------------------------------------------------- the entries
\* An entry is what urlparse(entry['url']) and entry.get give: the url's
\* scheme, hostname, port (0 when the url names none), username and password
\* ("" when absent), its path, and the entry's private_key fields.
MkEntry(scheme, hostname, port, username, password, private_key, path) ==
  [scheme |-> scheme, hostname |-> hostname, port |-> port, username |-> username,
   password |-> password, private_key |-> private_key, private_key_pass |-> NONE,
   path |-> path]
EntryPool ==
  { MkEntry("sftp", "h1", 0, "u", "", NONE, <<"r", "a">>),
    MkEntry("sftp", "h1", 22, "u", "", NONE, <<"r", "d">>),
    MkEntry("sftp", "h1", 0, "u", "pw", NONE, <<"r", "x">>),
    MkEntry("ftp", "h1", 0, "u", "", NONE, <<"r", "a">>) }

\* Python's "x or None" on a string and "x or 22" on a port
OrNone(x) == IF x = "" THEN NONE ELSE x
OrPort(x, default) == IF x = 0 THEN default ELSE x

\* ConnectionConfig(host, port, username, password, private_key, private_key_pass)
ConnectionConfig(host, port, username, password, private_key, private_key_pass) ==
  <<host, port, username, password, private_key, private_key_pass>>

\* a get_sftp_config that leaves the password out of the key
get_sftp_config_NoPassword(entry) ==
  IF entry.scheme = "sftp"
    THEN ConnectionConfig(entry.hostname, OrPort(entry.port, DEFAULT_PORT),
                          OrNone(entry.username), NONE, entry.private_key,
                          entry.private_key_pass)
    ELSE NoConfig

\* SftpDownload.get_sftp_config(entry)
get_sftp_config(entry) ==
  LET host == entry.hostname
      username == OrNone(entry.username)
      password == OrNone(entry.password)
      port == OrPort(entry.port, DEFAULT_PORT)
      private_key == entry.private_key
      private_key_pass == entry.private_key_pass
  IN IF entry.scheme = "sftp"
       THEN ConnectionConfig(host, port, username, password, private_key, private_key_pass)
       ELSE NoConfig

\* ------------------------------------------------------------------ state
VARIABLES
  accepted,       \* the entries task.accepted has yielded so far
  exhausted,      \* task.accepted raised StopIteration
  i,              \* index in accepted of the entry groupby holds (currvalue)
  pc,             \* position in on_task_download
  config,         \* the plugin's config: delete_origin, recursive
  sftp_config,    \* key of the group being processed
  sftp,           \* session of the group: index in sessions, 0 for None
  error_message,  \* on_task_download's error_message is set
  tries,          \* sftp_connect: remaining retries
  retry_interval, \* sftp_connect: next sleep
  attempts,       \* pysftp.Connection calls of the current sftp_connect call
  sleeps,         \* time.sleep arguments of the current sftp_connect call
  sessions,       \* every session opened: its config and how often it was closed
  connects,       \* the sftp_connect calls: the group's first entry, and the result
  outcome,        \* per entry handled so far: what on_task_download did with it
  last,           \* the session calls of the latest download_entry invocation
  remote,         \* the server's file system
  local,          \* destination files on the local file system
  gets,           \* completed byte copies per destination
  faults,         \* download_entry invocations in which a session call raised
  dir,            \* on_task_input: index in config['dirs'] of the root being walked
  entries,        \* on_task_input: the entries produced so far
  walks,          \* on_task_input: how the walk of each root ended
  st_size         \* the size the server reports for each node (lstat().st_size)

vars ==
  <<accepted, exhausted, i, pc, config, sftp_config, sftp, error_message, tries,
    retry_interval, attempts, sleeps, sessions, connects, outcome, last, remote,
    local, gets, faults, dir, entries, walks,
    st_size>>

connVars == <<tries, retry_interval, attempts, sleeps>>
worldVars == <<remote, local, gets, faults, last>>
inputVars == <<accepted, exhausted>>
listVars == <<dir, entries, walks, st_size>>

\* what on_task_download did with one entry: the session it was handled on
\* (0 for none), whether its group was skipped, entry.fail's message kind (""
\* when entry.fail was not called), whether download_entry raised, and whether
\* its remote path was found missing
Outcome(sess, skipped, fail, escaped, missing) ==
  [sess |-> sess, skipped |-> skipped, fail |-> fail, escaped |-> escaped,
   missing |-> missing]

\* the latest download_entry invocation: the entry's index, the fault raised in
\* it, its download_file calls, the directories it removed, and the two file
\* systems as it found them
NoCalls == [k |-> 0, fault |-> NoFault, calls |-> <<>>, pruned |-> {},
            remote0 |-> {}, local0 |-> {}]

Init ==
  /\ accepted = <<>>
  /\ exhausted = FALSE
  /\ i = 1
  /\ pc = "groupby"
  /\ config \in [delete_origin : BOOLEAN, recursive : BOOLEAN]
  /\ sftp_config = NoConfig
  /\ sftp = 0
  /\ error_message = FALSE
  /\ tries = 0
  /\ retry_interval = 0
  /\ attempts = 0
  /\ sleeps = <<>>
  /\ sessions = <<>>
  /\ connects = <<>>
  /\ outcome = <<>>
  /\ last = NoCalls
  /\ remote = Nodes
  /\ local = {}
  /\ gets = [d \in {} |-> 0]
  /\ faults = 0
  /\ dir = 1
  /\ entries = <<>>
  /\ walks = <<>>
  /\ st_size = Sizes(0)

\* groupby needs the next element of task.accepted
NeedsInput == pc \in {"groupby", "entries"} /\ i = Len(accepted) + 1 /\ ~exhausted

\* next(task.accepted) yields an entry
ReadEntry ==
  /\ NeedsInput
  /\ Len(accepted) < MaxEntries
  /\ faults = 0 \/ Len(accepted) < MaxFaultyEntries
  /\ \E e \in EntryPool : accepted' = Append(accepted, e)
  /\ UNCHANGED <<exhausted, i, pc, config, sftp_config, sftp, error_message,
                 sessions, connects, outcome>>
  /\ UNCHANGED connVars
  /\ UNCHANGED worldVars
  /\ UNCHANGED listVars

\* next(task.accepted) raises StopIteration
EndOfInput ==
  /\ NeedsInput
  /\ exhausted' = TRUE
  /\ UNCHANGED <<accepted, i, pc, config, sftp_config, sftp, error_message,
                 sessions, connects, outcome>>
  /\ UNCHANGED connVars
  /\ UNCHANGED worldVars
  /\ UNCHANGED listVars

\* line 468-470: groupby yields a group whose key is None; it is skipped
SkipGroup ==
  /\ pc = "groupby"
  /\ i <= Len(accepted)
  /\ get_sftp_config(accepted[i]) = NoConfig
  /\ outcome' = Append(outcome, Outcome(0, TRUE, "", FALSE, FALSE))
  /\ i' = i + 1
  /\ UNCHANGED <<pc, config, sftp_config, sftp, error_message, sessions, connects>>
  /\ UNCHANGED inputVars
  /\ UNCHANGED connVars
  /\ UNCHANGED worldVars
  /\ UNCHANGED listVars

\* lines 468-475 and 46-48: groupby yields a group with a config;
\* sftp_connect(sftp_config) is entered
StartGroup ==
  /\ pc = "groupby"
  /\ i <= Len(accepted)
  /\ get_sftp_config(accepted[i]) # NoConfig
  /\ sftp_config' = get_sftp_config(accepted[i])
  /\ error_message' = FALSE
  /\ sftp' = 0
  /\ tries' = CONNECT_TRIES
  /\ retry_interval' = RETRY_INTERVAL
  /\ attempts' = 0
  /\ sleeps' = <<>>
  /\ connects' = Append(connects, [first |-> i, result |-> "pending"])
  /\ pc' = "connect"
  /\ UNCHANGED <<i, config, sessions, outcome>>
  /\ UNCHANGED inputVars
  /\ UNCHANGED worldVars
  /\ UNCHANGED listVars

\* line 468: groupby is exhausted; on_task_download returns
Finish ==
  /\ pc = "groupby"
  /\ i > Len(accepted)
  /\ exhausted
  /\ pc' = "done"
  /\ UNCHANGED <<i, config, sftp_config, sftp, error_message, sessions, connects,
                 outcome>>
  /\ UNCHANGED inputVars
  /\ UNCHANGED connVars
  /\ UNCHANGED worldVars
  /\ UNCHANGED listVars

\* ------------------------------------------------------------ sftp_connect
\* a retry loop that gives up with one retry left
BudgetExhausted_Early(t) == t <= 1

\* line 63: "if not tries"
BudgetExhausted(t) == t = 0
\* a retry loop that sleeps the same interval every time
NextInterval_Same(interval) == interval

\* line 73 and line 74
NextTries(t) == t - 1
NextInterval(interval) == interval + RETRY_STEP

\* lines 52-61: pysftp.Connection succeeds; sftp_connect returns the session
ConnectOk ==
  /\ pc = "connect"
  /\ attempts' = attempts + 1
  /\ sessions' = Append(sessions, [conf |-> sftp_config, closes |-> 0])
  /\ pc' = "connected"
  /\ UNCHANGED <<i, config, sftp_config, sftp, error_message, tries, retry_interval,
                 sleeps, connects, outcome>>
  /\ UNCHANGED inputVars
  /\ UNCHANGED worldVars
  /\ UNCHANGED listVars

\* lines 62-74: pysftp.Connection raises while tries remain; sleep and retry
ConnectRetry ==
  /\ pc = "connect"
  /\ ~BudgetExhausted(tries)
  /\ attempts' = attempts + 1
  /\ sleeps' = Append(sleeps, retry_interval)
  /\ tries' = NextTries(tries)
  /\ retry_interval' = NextInterval(retry_interval)
  /\ UNCHANGED <<i, pc, config, sftp_config, sftp, error_message, sessions, connects,
                 outcome>>
  /\ UNCHANGED inputVars
  /\ UNCHANGED worldVars
  /\ UNCHANGED listVars

\* lines 62-64: pysftp.Connection raises and no tries remain; sftp_connect raises
ConnectRaise ==
  /\ pc = "connect"
  /\ BudgetExhausted(tries)
  /\ attempts' = attempts + 1
  /\ pc' = "connect_raised"
  /\ UNCHANGED <<i, config, sftp_config, sftp, error_message, tries, retry_interval,
                 sleeps, sessions, connects, outcome>>
  /\ UNCHANGED inputVars
  /\ UNCHANGED worldVars
  /\ UNCHANGED listVars

\* an on_task_download that does not catch sftp_connect's error
AfterConnect_Uncaught ==
  /\ pc \in {"connected", "connect_raised"}
  /\ sftp' = IF pc = "connected" THEN Len(sessions) ELSE 0
  /\ error_message' = FALSE
  /\ tries' = 0
  /\ retry_interval' = 0
  /\ attempts' = 0
  /\ sleeps' = <<>>
  /\ connects' = [connects EXCEPT ![Len(connects)].result =
                     IF pc = "connected" THEN "session" ELSE "error"]
  /\ pc' = IF pc = "connected" THEN "entries" ELSE "aborted"
  /\ UNCHANGED <<i, config, sftp_config, sessions, outcome>>
  /\ UNCHANGED inputVars
  /\ UNCHANGED worldVars
  /\ UNCHANGED listVars

\* lines 474-478: on_task_download takes sftp_connect's session or its error
AfterConnect ==
  /\ pc \in {"connected", "connect_raised"}
  /\ sftp' = IF pc = "connected" THEN Len(sessions) ELSE 0
  /\ error_message' = (pc = "connect_raised")
  /\ tries' = 0
  /\ retry_interval' = 0
  /\ attempts' = 0
  /\ sleeps' = <<>>
  /\ connects' = [connects EXCEPT ![Len(connects)].result =
                     IF pc = "connected" THEN "session" ELSE "error"]
  /\ pc' = "entries"
  /\ UNCHANGED <<i, config, sftp_config, sessions, outcome>>
  /\ UNCHANGED inputVars
  /\ UNCHANGED worldVars
  /\ UNCHANGED listVars

\* ------------------------------------------------------- the group's entries
\* groupby's grouper yields accepted[i]: it has the group's key
InGroup == i <= Len(accepted) /\ get_sftp_config(accepted[i]) = sftp_config
\* groupby's grouper stops: the key changed or task.accepted is exhausted
GroupOver ==
  \/ (i <= Len(accepted) /\ get_sftp_config(accepted[i]) # sftp_config)
  \/ (i > Len(accepted) /\ exhausted)

World == [remote |-> remote, local |-> local, gets |-> gets, calls |-> <<>>,
          pruned |-> {}, raised |-> FALSE, hit |-> FALSE]

\* lines 480-482: download_entry(entry, config, sftp) on the open session; an
\* exception that leaves download_entry leaves on_task_download
ProcessEntry ==
  /\ pc = "entries"
  /\ InGroup
  /\ sftp # 0
  /\ \E f \in FaultPoints \cup {NoFault} :
       LET res == download_entry(accepted[i], config, World, f)
       IN /\ f = NoFault
             \/ (res.w.hit /\ faults < MaxFaults /\ Len(accepted) <= MaxFaultyEntries)
          /\ remote' = res.w.remote
          /\ local' = res.w.local
          /\ gets' = res.w.gets
          /\ faults' = IF f = NoFault THEN faults ELSE faults + 1
          /\ outcome' = Append(outcome,
                 Outcome(sftp, FALSE, res.fail, res.escaped, res.missing))
          /\ last' = [k |-> i, fault |-> f, calls |-> res.w.calls,
                      pruned |-> res.w.pruned, remote0 |-> remote, local0 |-> local]
          /\ pc' = IF res.escaped THEN "aborted" ELSE "entries"
  /\ i' = i + 1
  /\ UNCHANGED <<config, sftp_config, sftp, error_message, sessions, connects>>
  /\ UNCHANGED inputVars
  /\ UNCHANGED connVars
  /\ UNCHANGED listVars

\* lines 480-484: the connection failed; entry.fail(error_message)
FailEntry ==
  /\ pc = "entries"
  /\ InGroup
  /\ sftp = 0
  /\ outcome' = Append(outcome, Outcome(0, FALSE, "connect", FALSE, FALSE))
  /\ i' = i + 1
  /\ UNCHANGED <<pc, config, sftp_config, sftp, error_message, sessions, connects>>
  /\ UNCHANGED inputVars
  /\ UNCHANGED connVars
  /\ UNCHANGED worldVars
  /\ UNCHANGED listVars

\* lines 485-486: the group is over; "if sftp: sftp.close()"
CloseGroup ==
  /\ pc = "entries"
  /\ GroupOver
  /\ sessions' = IF sftp # 0 THEN [sessions EXCEPT ![sftp].closes = @ + 1] ELSE sessions
  /\ sftp' = 0
  /\ pc' = "groupby"
  /\ UNCHANGED <<i, config, sftp_config, error_message, connects, outcome>>
  /\ UNCHANGED inputVars
  /\ UNCHANGED connVars
  /\ UNCHANGED worldVars
  /\ UNCHANGED listVars

Next ==
  \/ ReadEntry
  \/ EndOfInput
  \/ SkipGroup
  \/ StartGroup
  \/ Finish
  \/ ConnectOk
  \/ ConnectRetry
  \/ ConnectRaise
  \/ AfterConnect
  \/ ProcessEntry
  \/ FailEntry
  \/ CloseGroup

Spec == Init /\ [][Next]_vars

\* sftp_connect's loop runs on: pysftp.Connection returns or raises, and
\* time.sleep returns
SpecConnect == Spec /\ WF_vars(ConnectOk \/ ConnectRetry \/ ConnectRaise)

\* ============================================================ download_file
\* download_file on its own: the server holds any tree of Nodes, the session's
\* working directory is a directory above a file, and download_file is called
\* for the file with its path relative to that directory, as download_entry
\* (lines 428-431) and sftp.walktree (line 454) call it.
Trees ==
  { t \in SUBSET Nodes : <<"r">> \in t /\ \A p \in t : Len(p) > 1 => Front(p) \in t }
Above(p) == { SubSeq(p, 1, n) : n \in 1..(Len(p) - 1) }
MaxCalls == 2          \* download_file calls in a row

FileInit ==
  /\ accepted = <<>>
  /\ exhausted = TRUE
  /\ i = 1
  /\ pc = "download_file"
  /\ config \in [delete_origin : BOOLEAN, recursive : { FALSE }]
  /\ sftp_config = NoConfig
  /\ sftp = 0
  /\ error_message = FALSE
  /\ tries = 0
  /\ retry_interval = 0
  /\ attempts = 0
  /\ sleeps = <<>>
  /\ sessions = <<>>
  /\ connects = <<>>
  /\ outcome = <<>>
  /\ last = NoCalls
  /\ remote \in Trees
  /\ local = {}
  /\ gets = [d \in {} |-> 0]
  /\ faults = 0
  /\ dir = 1
  /\ entries = <<>>
  /\ walks = <<>>
  /\ st_size = Sizes(0)

\* lines 343-380: one call of download_file(path, dest, sftp, delete_origin)
DownloadFile ==
  /\ pc = "download_file"
  /\ i <= MaxCalls
  /\ \E abs \in { p \in remote : NodeKind(p) = "file" } :
       \E cwd \in Above(abs) :
         \E f \in FaultPoints \cup { NoFault } :
           \E res \in { download_file(World, cwd, SubSeq(abs, Len(cwd) + 1, Len(abs)), TO,
                                      config.delete_origin, f) } :
              /\ f = NoFault \/ (res.hit /\ faults < MaxFaults)
              /\ faults' = IF f = NoFault THEN faults ELSE faults + 1
              /\ remote' = res.remote
              /\ local' = res.local
              /\ gets' = res.gets
              /\ last' = [k |-> i, fault |-> f, calls |-> res.calls, pruned |-> res.pruned,
                          remote0 |-> remote, local0 |-> local]
              /\ outcome' = Append(outcome, Outcome(0, FALSE, IF res.raised THEN "file" ELSE "",
                                                    FALSE, FALSE))
  /\ i' = i + 1
  /\ UNCHANGED <<accepted, exhausted, pc, config, sftp_config, sftp, error_message,
                 sessions, connects>>
  /\ UNCHANGED connVars
  /\ UNCHANGED listVars

\* the calls are over
FileReturn ==
  /\ pc = "download_file"
  /\ pc' = "done"
  /\ UNCHANGED <<accepted, exhausted, i, config, sftp_config, sftp, error_message,
                 sessions, connects, outcome>>
  /\ UNCHANGED connVars
  /\ UNCHANGED worldVars
  /\ UNCHANGED listVars

FileNext ==
  \/ DownloadFile
  \/ FileReturn

SpecFile == FileInit /\ [][FileNext]_vars

\* ================================================================ sftp_list
\* A call of the session raises an IOError (a transport I/O error, a missing
\* path) or an exception of another class (paramiko's SSHException); the raising
\* call of one root's walk is the fault f = <<site, path, class>>.
ListSites == { "listdir", "stat", "normalize", "lstat" }
ErrorKinds == { "IOError", "Exception" }
ListFaults == ListSites \X Nodes \X ErrorKinds
NoListFault == <<"none", <<>>, "">>
\* the class of the error the call site(p) raises, "" when it returns
Raised(f, site, p) == IF f[1] = site /\ f[2] = p THEN f[3] ELSE ""

\* the roots config['dirs'] may name: / and the missing /r/x
RootPool == { <<>>, <<"r", "x">> }
MaxRoots == 2          \* longest config['dirs']

RECURSIVE SeqsUpTo(_, _)
SeqsUpTo(S, n) ==
  IF n = 0 THEN { <<>> }
  ELSE LET shorter == SeqsUpTo(S, n - 1)
       IN shorter \cup { Append(q, x) : q \in { r \in shorter : Len(r) = n - 1 }, x \in S }

\* sum(sizes)
RECURSIVE sum(_)
sum(sizes) == IF sizes = <<>> THEN 0 ELSE Head(sizes) + sum(Tail(sizes))

\* file_size(path), line 221: sftp.lstat(path).st_size
file_size(path, sizeof, f) ==
  [raised |-> Raised(f, "lstat", path), hit |-> Raised(f, "lstat", path) # "",
   size |-> IF path \in DOMAIN sizeof THEN sizeof[path] ELSE 0]

\* dir_size's node_size(f), lines 229-230: sizes.append(file_size(f))
node_size(acc, path, sizeof, f) ==
  LET got == file_size(path, sizeof, f)
  IN IF got.raised # "" THEN [acc EXCEPT !.raised = got.raised, !.hit = TRUE]
     ELSE [acc EXCEPT !.sizes = Append(@, got.size)]

\* dir_size, line 232: sftp.walktree(path, node_size, node_size, node_size, True)
RECURSIVE SizeWalk(_, _, _, _, _)
RECURSIVE SizeNames(_, _, _, _, _, _)
SizeWalk(acc, remotepath, fs, sizeof, f) ==
  IF Raised(f, "listdir", remotepath) # ""
    THEN [acc EXCEPT !.raised = Raised(f, "listdir", remotepath), !.hit = TRUE]
  ELSE IF ~isdir(remotepath, fs) THEN [acc EXCEPT !.raised = "IOError"]
  ELSE SizeNames(acc, remotepath, listdir(remotepath, fs), fs, sizeof, f)
SizeNames(acc, dirname, names, fs, sizeof, f) ==
  IF names = <<>> \/ acc.raised # "" THEN acc
  ELSE LET pathname == dirname \o <<Head(names)>>
           acc1 == IF Raised(f, "stat", pathname) # ""
                     THEN [acc EXCEPT !.raised = Raised(f, "stat", pathname), !.hit = TRUE]
                   ELSE IF NodeKind(pathname) = "dir"
                     THEN LET sized == node_size(acc, pathname, sizeof, f)
                          IN IF sized.raised # "" THEN sized
                             ELSE SizeWalk(sized, pathname, fs, sizeof, f)
                   ELSE node_size(acc, pathname, sizeof, f)
       IN SizeNames(acc1, dirname, Tail(names), fs, sizeof, f)

\* dir_size(path), lines 223-235
dir_size(path, fs, sizeof, f) ==
  LET walked == SizeWalk([sizes |-> <<>>, raised |-> "", hit |-> FALSE], path, fs, sizeof, f)
  IN [raised |-> walked.raised, hit |-> walked.hit, size |-> sum(walked.sizes)]

\* Entry(title, url), with content_size when get_size is set
Entry(title, url) == [title |-> title, url |-> url]
Sized(entry, size) == [title |-> entry.title, url |-> entry.url, content_size |-> size]

\* handle_node(path, size_handler, is_dir), lines 237-262; lw is the walk so
\* far: the entries list, the error propagating, and whether the fault was raised
handle_node(lw, path, is_dir, conf, fs, sizeof, f) ==
  IF is_dir /\ conf.files_only THEN lw
  ELSE IF Raised(f, "normalize", path) # ""
    THEN [lw EXCEPT !.raised = Raised(f, "normalize", path), !.hit = TRUE]
  ELSE LET title == Last(path)
           entry == Entry(title, path)
           got == IF is_dir THEN dir_size(path, fs, sizeof, f)
                  ELSE file_size(path, sizeof, f)
           size == IF got.raised # "" THEN -1 ELSE got.size
       IN IF conf.get_size
            THEN [lw EXCEPT !.entries = Append(@, Sized(entry, size)),
                            !.hit = @ \/ got.hit]
            ELSE [lw EXCEPT !.entries = Append(@, entry)]

\* line 277: sftp.walktree(dir, handle_file, handle_dir, handle_unknown, recursive)
RECURSIVE list_walktree(_, _, _, _, _, _)
RECURSIVE ListNames(_, _, _, _, _, _, _)
list_walktree(lw, remotepath, conf, fs, sizeof, f) ==
  IF Raised(f, "listdir", remotepath) # ""
    THEN [lw EXCEPT !.raised = Raised(f, "listdir", remotepath), !.hit = TRUE]
  ELSE IF ~isdir(remotepath, fs) THEN [lw EXCEPT !.raised = "IOError"]
  ELSE ListNames(lw, remotepath, listdir(remotepath, fs), conf, fs, sizeof, f)
ListNames(lw, dirname, names, conf, fs, sizeof, f) ==
  IF names = <<>> \/ lw.raised # "" THEN lw
  ELSE LET pathname == dirname \o <<Head(names)>>
           lw1 == IF Raised(f, "stat", pathname) # ""
                    THEN [lw EXCEPT !.raised = Raised(f, "stat", pathname), !.hit = TRUE]
                  ELSE IF NodeKind(pathname) = "dir"
                    THEN LET handled == handle_node(lw, pathname, TRUE, conf, fs, sizeof, f)
                         IN IF handled.raised = "" /\ conf.recursive
                              THEN list_walktree(handled, pathname, conf, fs, sizeof, f)
                              ELSE handled
                  ELSE IF NodeKind(pathname) = "file"
                    THEN handle_node(lw, pathname, FALSE, conf, fs, sizeof, f)
                  ELSE lw
       IN ListNames(lw1, dirname, Tail(names), conf, fs, sizeof, f)

\* the config of sftp_list after prepare_config
ListConfigs ==
  [files_only : BOOLEAN, recursive : BOOLEAN, get_size : BOOLEAN,
   dirs : SeqsUpTo(RootPool, MaxRoots) \ { <<>> }]
\* sftp_from_config, lines 83-90: the ConnectionConfig of the plugin's config
PluginConfig == ConnectionConfig("h1", DEFAULT_PORT, "u", NONE, NONE, NONE)

ListInit ==
  /\ accepted = <<>>
  /\ exhausted = TRUE
  /\ i = 1
  /\ pc = "start"
  /\ config \in ListConfigs
  /\ sftp_config = PluginConfig
  /\ sftp = 0
  /\ error_message = FALSE
  /\ tries = 0
  /\ retry_interval = 0
  /\ attempts = 0
  /\ sleeps = <<>>
  /\ sessions = <<>>
  /\ connects = <<>>
  /\ outcome = <<>>
  /\ last = NoCalls
  /\ remote \in { Nodes, Nodes \ { <<"r", "d", "s", "c">> } }
  /\ local = {}
  /\ gets = [d \in {} |-> 0]
  /\ faults = 0
  /\ dir = 1
  /\ entries = <<>>
  /\ walks = <<>>
  /\ st_size \in { Sizes(0), Sizes(4096) }

downloadVars ==
  <<accepted, exhausted, i, sftp_config, error_message, connects, outcome>>

\* line 212: sftp_from_config(config) returns a session
ListConnected ==
  /\ pc = "start"
  /\ sessions' = Append(sessions, [conf |-> sftp_config, closes |-> 0])
  /\ sftp' = Len(sessions) + 1
  /\ pc' = "roots"
  /\ UNCHANGED <<config, dir, entries, walks, st_size>>
  /\ UNCHANGED downloadVars
  /\ UNCHANGED connVars
  /\ UNCHANGED worldVars

\* lines 92-95: sftp_connect raised; sftp_from_config raises PluginError
ListConnectFailed ==
  /\ pc = "start"
  /\ pc' = "failed"
  /\ UNCHANGED <<config, sftp, sessions>>
  /\ UNCHANGED listVars
  /\ UNCHANGED downloadVars
  /\ UNCHANGED connVars
  /\ UNCHANGED worldVars

\* an on_task_input whose loop catches no error of a walk
Caught_Nothing(raised) == FALSE

\* line 278: "except IOError"
Caught(raised) == raised = "IOError"

\* lines 275-280: one root of config['dirs'] is walked; an IOError is logged
\* and the loop continues, any other exception leaves on_task_input
WalkRoot ==
  /\ pc = "roots"
  /\ dir <= Len(config.dirs)
  /\ \E f \in ListFaults \cup { NoListFault } :
       \E res \in { list_walktree([entries |-> entries, raised |-> "", hit |-> FALSE],
                                   config.dirs[dir], config, remote, st_size, f) } :
          /\ f = NoListFault \/ (res.hit /\ faults < MaxFaults)
          /\ faults' = IF f = NoListFault THEN faults ELSE faults + 1
          /\ entries' = res.entries
          /\ walks' = Append(walks, [raised |-> res.raised, fault |-> f[1],
                                     before |-> Len(entries)])
          /\ pc' = IF res.raised = "" \/ Caught(res.raised) THEN "roots" ELSE "aborted"
  /\ dir' = dir + 1
  /\ UNCHANGED <<config, sftp, sessions, st_size, remote, local, gets, last>>
  /\ UNCHANGED downloadVars
  /\ UNCHANGED connVars

\* lines 282-284: sftp.close(); return entries
ListReturn ==
  /\ pc = "roots"
  /\ dir > Len(config.dirs)
  /\ sessions' = [sessions EXCEPT ![sftp].closes = @ + 1]
  /\ pc' = "done"
  /\ UNCHANGED <<config, sftp>>
  /\ UNCHANGED listVars
  /\ UNCHANGED downloadVars
  /\ UNCHANGED connVars
  /\ UNCHANGED worldVars

ListNext ==
  \/ ListConnected
  \/ ListConnectFailed
  \/ WalkRoot
  \/ ListReturn

SpecList == ListInit /\ [][ListNext]_vars

\* ============================================================== sftp_upload
\* An entry of sftp_upload: entry['location'], and what config['to'] renders to
\* for it.  The local files are /l/f and /l/g; the destinations are the
\* directory /r/d, the file /r/a and /r/n/m, which does not exist.
UploadEntry(location, to) == [location |-> location, to |-> to]
Locations == { <<"l", "f">>, <<"l", "g">> }
Destinations == { <<"r", "d">>, <<"r", "a">>, <<"r", "n", "m">> }
UploadPool == { UploadEntry(l, t) : l \in Locations, t \in Destinations }
MaxUploads == 2        \* longest task.accepted of sftp_upload

\* the call of one handle_entry invocation that raises, and the class raised
NoUploadFault == <<"none", "">>
UploadFaults ==
  { <<"render", "RenderError">>, <<"lexists", "IOError">>, <<"lexists", "Exception">>,
    <<"makedirs", "Exception">>, <<"isdir", "IOError">>, <<"isdir", "Exception">>,
    <<"put", "IOError">>, <<"put", "Exception">>, <<"os.remove", "OSError">> }
Throws(f, site) == IF f[1] = site THEN f[2] ELSE ""

\* the non-empty prefixes of a path: the directories makedirs makes sure of
Prefixes(p) == { SubSeq(p, 1, n) : n \in 1..Len(p) }
\* sftp.makedirs(to): it raises when a name on the way is a file
makedirs(fs, to, f) ==
  IF Throws(f, "makedirs") # "" THEN [raised |-> TRUE, hit |-> TRUE, remote |-> fs]
  ELSE IF \E q \in Prefixes(to) : q \in fs /\ NodeKind(q) # "dir"
    THEN [raised |-> TRUE, hit |-> FALSE, remote |-> fs]
  ELSE [raised |-> FALSE, hit |-> FALSE, remote |-> fs \cup Prefixes(to)]

\* what handle_entry did: entry.fail's message kind ("" when entry.fail was not
\* called), whether an exception left it, whether the missing source made it
\* return, whether makedirs was called, how sftp.put ended ("none" when it was
\* not called), whether os.remove(location) was called and whether it removed,
\* and whether the fault of the invocation was raised
Handling(w, fail, escaped, skipped, made, put, remove) ==
  [remote |-> w.remote, local |-> w.local, fail |-> fail, escaped |-> escaped,
   skipped |-> skipped, made |-> made, put |-> put, remove |-> remove, hit |-> FALSE]
Hit(h) == [h EXCEPT !.hit = TRUE]

\* a handle_entry that removes the source whatever delete_origin says
DeletesOrigin_Always(conf) == TRUE

\* line 589: "if config['delete_origin']"
DeletesOrigin(conf) == conf.delete_origin

\* a handle_entry that never creates the destination directory
DirectoryMissing_Never(to, fs) == FALSE

\* line 564: "if not sftp.lexists(to)"
DirectoryMissing(to, fs) == ~lexists(to, fs)

\* a handle_entry that does not look for the local source
SourceExists_Unchecked(location, fs) == TRUE

\* line 560: os.path.exists(location)
SourceExists(location, fs) == location \in fs

\* lines 589-593: remove the local source; a failure is logged
RemoveOrigin(w, location, conf, f, made) ==
  IF ~DeletesOrigin(conf) THEN Handling(w, "", FALSE, FALSE, made, "ok", "none")
  ELSE IF Throws(f, "os.remove") # ""
    THEN Hit(Handling(w, "", FALSE, FALSE, made, "ok", "failed"))
  ELSE Handling([w EXCEPT !.local = @ \ { location }], "", FALSE, FALSE, made, "ok",
                "removed")

\* lines 577-587: sftp.put(localpath=location, remotepath=destination); after
\* an IOError the messages of lines 581-582 have fewer arguments than
\* placeholders, and formatting them raises
Put(w, location, destination, conf, f, made) ==
  IF Throws(f, "put") = "IOError"
    THEN Hit(Handling(w, "", TRUE, FALSE, made, "IOError", "none"))
  ELSE IF Throws(f, "put") # ""
    THEN Hit(Handling(w, "put", FALSE, FALSE, made, "Exception", "none"))
  ELSE RemoveOrigin([w EXCEPT !.remote = @ \cup { destination }], location, conf, f, made)

\* lines 572-575: sftp.isdir(to), which takes an IOError for "not a directory"
IsDirThenPut(w, location, to, destination, conf, f, made) ==
  IF Throws(f, "isdir") = "Exception"
    THEN Hit(Handling(w, "", TRUE, FALSE, made, "none", "none"))
  ELSE IF Throws(f, "isdir") = "IOError"
    THEN Hit(Handling(w, "notdir", FALSE, FALSE, made, "none", "none"))
  ELSE IF ~isdir(to, w.remote)
    THEN Handling(w, "notdir", FALSE, FALSE, made, "none", "none")
  ELSE Put(w, location, destination, conf, f, made)

\* lines 564-570: sftp.lexists(to) was false (it takes an IOError for "does
\* not exist"): sftp.makedirs(to)
MakeDirsThenPut(w, location, to, destination, conf, f) ==
  LET made == makedirs(w.remote, to, f)
  IN IF made.raised
       THEN [Handling(w, "makedirs", FALSE, FALSE, TRUE, "none", "none")
               EXCEPT !.hit = made.hit]
       ELSE IsDirThenPut([w EXCEPT !.remote = made.remote], location, to,
                         destination, conf, f, TRUE)

\* SftpUpload.handle_entry(entry, sftp, config, url_prefix)
handle_entry(entry, conf, w, f) ==
  LET location == entry.location
      filename == <<Last(location)>>
      to == entry.to
      destination == to \o filename
  IN IF Throws(f, "render") # ""
       THEN Hit(Handling(w, "render", FALSE, FALSE, FALSE, "none", "none"))
     ELSE IF ~SourceExists(location, w.local)
       THEN Handling(w, "", FALSE, TRUE, FALSE, "none", "none")
     ELSE IF Throws(f, "lexists") = "Exception"
       THEN Hit(Handling(w, "", TRUE, FALSE, FALSE, "none", "none"))
     ELSE IF Throws(f, "lexists") = "IOError"
       THEN Hit(MakeDirsThenPut(w, location, to, destination, conf, f))
     ELSE IF DirectoryMissing(to, w.remote)
       THEN MakeDirsThenPut(w, location, to, destination, conf, f)
     ELSE IsDirThenPut(w, location, to, destination, conf, f, FALSE)

UploadInit ==
  /\ accepted \in SeqsUpTo(UploadPool, MaxUploads)
  /\ exhausted = TRUE
  /\ i = 1
  /\ pc = "start"
  /\ config \in [delete_origin : BOOLEAN]
  /\ sftp_config = PluginConfig
  /\ sftp = 0
  /\ error_message = FALSE
  /\ tries = 0
  /\ retry_interval = 0
  /\ attempts = 0
  /\ sleeps = <<>>
  /\ sessions = <<>>
  /\ connects = <<>>
  /\ outcome = <<>>
  /\ last = NoCalls
  /\ remote = Nodes
  /\ local \in { Locations, { <<"l", "f">> } }
  /\ gets = [d \in {} |-> 0]
  /\ faults = 0
  /\ dir = 1
  /\ entries = <<>>
  /\ walks = <<>>
  /\ st_size = Sizes(0)

uploadFrame == <<accepted, exhausted, config, sftp_config, error_message, connects>>

\* line 600: sftp_from_config(config) returns a session
UploadConnected ==
  /\ pc = "start"
  /\ sessions' = Append(sessions, [conf |-> sftp_config, closes |-> 0])
  /\ sftp' = Len(sessions) + 1
  /\ pc' = "entries"
  /\ UNCHANGED <<i, outcome>>
  /\ UNCHANGED uploadFrame
  /\ UNCHANGED listVars
  /\ UNCHANGED connVars
  /\ UNCHANGED worldVars

\* lines 92-95: sftp_connect raised; sftp_from_config raises PluginError
UploadConnectFailed ==
  /\ pc = "start"
  /\ pc' = "failed"
  /\ UNCHANGED <<i, outcome, sftp, sessions>>
  /\ UNCHANGED uploadFrame
  /\ UNCHANGED listVars
  /\ UNCHANGED connVars
  /\ UNCHANGED worldVars

\* lines 603-606: handle_entry for the next accepted entry (sftp is a session
\* here: sftp_from_config returns one or raises)
HandleEntry ==
  /\ pc = "entries"
  /\ i <= Len(accepted)
  /\ sftp # 0
  /\ \E f \in UploadFaults \cup { NoUploadFault } :
       \E res \in { handle_entry(accepted[i], config, [remote |-> remote, local |-> local], f) } :
          /\ f = NoUploadFault \/ (res.hit /\ faults < MaxFaults)
          /\ faults' = IF f = NoUploadFault THEN faults ELSE faults + 1
          /\ remote' = res.remote
          /\ local' = res.local
          /\ outcome' = Append(outcome,
                 [fail |-> res.fail, escaped |-> res.escaped, skipped |-> res.skipped,
                  made |-> res.made, put |-> res.put, remove |-> res.remove,
                  fault |-> f, existed |-> lexists(accepted[i].to, remote),
                  mutated |-> res.remote # remote, source |-> accepted[i].location \in local])
          /\ pc' = IF res.escaped THEN "aborted" ELSE "entries"
  /\ i' = i + 1
  /\ UNCHANGED <<sftp, sessions, gets, last>>
  /\ UNCHANGED uploadFrame
  /\ UNCHANGED listVars
  /\ UNCHANGED connVars

\* line 603: task.accepted is exhausted; on_task_output returns
UploadReturn ==
  /\ pc = "entries"
  /\ i > Len(accepted)
  /\ pc' = "done"
  /\ UNCHANGED <<i, outcome, sftp, sessions>>
  /\ UNCHANGED uploadFrame
  /\ UNCHANGED listVars
  /\ UNCHANGED connVars
  /\ UNCHANGED worldVars

UploadNext ==
  \/ UploadConnected
  \/ UploadConnectFailed
  \/ HandleEntry
  \/ UploadReturn

SpecUpload == UploadInit /\ [][UploadNext]_vars

\* ======================================================== the claims
\* the connection identity of a record, read off its url and key fields:
\* host, port (22 when the url names none), username, password, private key
\* and its passphrase; <<>> when the url's scheme is not sftp
Identity(e) ==
  IF e.scheme = "sftp"
    THEN <<e.hostname, IF e.port = 0 THEN 22 ELSE e.port, e.username, e.password,
           e.private_key, e.private_key_pass>>
    ELSE <<>>
Derivable(k) == Identity(accepted[k]) # <<>>
\* a session's config names the identity id (an absent field is None there)
ConfMatches(conf, id) ==
  /\ conf[1] = id[1]
  /\ conf[2] = id[2]
  /\ \A n \in 3..6 : conf[n] = id[n] \/ (id[n] = "" /\ conf[n] = NONE)
\* the first records of the maximal runs of consecutive records of one identity
RunStarts ==
  { k \in 1..Len(accepted) :
      Derivable(k) /\ (k = 1 \/ Identity(accepted[k - 1]) # Identity(accepted[k])) }
\* records j..k lie in one run
SameRun(j, k) ==
  j <= k /\ \A m \in (j + 1)..k : Identity(accepted[m]) = Identity(accepted[m - 1])
Handled == 1..Len(outcome)
ConnectFirsts == { connects[j].first : j \in 1..Len(connects) }

\* C1: when every attempt of sftp_connect fails, it raises after exactly 3
\* attempts, having slept exactly 15 and then 20 time-units and nothing else.
C1_ThreeAttemptsTwoSleeps ==
  pc = "connect_raised" => (attempts = 3 /\ sleeps = <<15, 20>>)

\* C1 as amended: when every attempt of sftp_connect fails, it raises after
\* exactly 4 attempts (the first and CONNECT_TRIES retries), having slept
\* exactly 15, then 20, then 25 time-units, one sleep after each failed attempt
\* but the last, which raises at once.
C1_FourAttemptsThreeSleeps ==
  /\ pc = "connect_raised" =>
       (attempts = 4 /\ sleeps = <<15, 20, 25>> /\ Len(sleeps) = attempts - 1)
  /\ pc = "connect" =>
       (Len(sleeps) = attempts /\ sleeps = SubSeq(<<15, 20, 25>>, 1, attempts))

C1_Witness == pc = "connect_raised" /\ attempts = 4 /\ sessions = <<>>

\* C2: the records are handled in their order as maximal runs of consecutive
\* records of one identity: one sftp_connect call per run that has an identity
\* and none for the others, one session for the records of a run, and never
\* one session for two records whose identities differ.
C2_OneConnectPerRun ==
  /\ \A j \in 1..Len(connects) : \A l \in 1..Len(connects) :
       j < l => connects[j].first < connects[l].first
  /\ ConnectFirsts \subseteq RunStarts
  /\ \A s \in RunStarts : s < i => s \in ConnectFirsts
  /\ pc = "done" => (ConnectFirsts = RunStarts /\ Len(outcome) = Len(accepted))
  /\ \A k \in Handled :
       /\ outcome[k].skipped <=> ~Derivable(k)
       /\ outcome[k].sess # 0 =>
            /\ Derivable(k)
            /\ ConfMatches(sessions[outcome[k].sess].conf, Identity(accepted[k]))
       /\ \A m \in Handled :
            (outcome[k].sess # 0 /\ outcome[k].sess = outcome[m].sess)
              => Identity(accepted[k]) = Identity(accepted[m])
       /\ \A m \in Handled :
            (k < m /\ outcome[k].sess # 0 /\ outcome[m].sess # 0)
              => outcome[k].sess <= outcome[m].sess
       /\ (k > 1 /\ Derivable(k) /\ Identity(accepted[k]) = Identity(accepted[k - 1]))
            => outcome[k].sess = outcome[k - 1].sess

\* identities [A, A, B, A], all handled: three runs, three connects
C2_Witness ==
  /\ pc = "done"
  /\ Len(accepted) = 4
  /\ \A k \in 1..4 : Derivable(k)
  /\ Identity(accepted[1]) = Identity(accepted[2])
  /\ Identity(accepted[2]) # Identity(accepted[3])
  /\ Identity(accepted[4]) = Identity(accepted[1])
  /\ Len(connects) = 3
  /\ Len(sessions) = 3
  /\ outcome[1].sess = outcome[2].sess
  /\ outcome[4].sess # outcome[1].sess

\* C3: when sftp_connect raises for a group, every record of the group is
\* failed with the connection error, download_entry is not invoked for any of
\* them, and on_task_download goes on: it is left only by a normal return or
\* by an exception of download_entry, and returns with every record handled.
ConnectFailedFor(k) ==
  \E j \in 1..Len(connects) :
    connects[j].result = "error" /\ SameRun(connects[j].first, k)
C3_ConnectFailureFailsGroup ==
  /\ \A k \in Handled :
       ConnectFailedFor(k) =>
         /\ outcome[k].fail = "connect"
         /\ outcome[k].sess = 0
         /\ last.k # k
  /\ \A k \in Handled : outcome[k].fail = "connect" => ConnectFailedFor(k)
  /\ pc = "aborted" => (outcome # <<>> /\ outcome[Len(outcome)].escaped)
  /\ pc \in {"groupby", "done"} =>
       \A k \in 1..Len(accepted) :
         ConnectFailedFor(k) => k \in Handled

\* a group of two records whose connection failed, then a record of the next
\* group downloaded on its own session
C3_Witness ==
  /\ pc = "done"
  /\ Len(outcome) >= 3
  /\ outcome[1].fail = "connect"
  /\ outcome[2].fail = "connect"
  /\ outcome[3].sess # 0
  /\ outcome[3].fail = ""
  /\ last.k = 3
  /\ last.calls # <<>>

\* C4: a transport error raised while one record is processed fails only that
\* record: on_task_download does not abort.
C4_NeverAborts == pc # "aborted"

\* C5: a download_file call that finds its destination does not copy, does not
\* raise and does not delete the origin even with delete_origin; over the whole
\* run no destination is copied more than once.
FileCalls == { last.calls[n] : n \in 1..Len(last.calls) }
C5_DownloadIdempotent ==
  /\ \A c \in FileCalls :
       c.existed =>
         /\ ~c.copied /\ ~c.partial /\ ~c.removed
         /\ c.dest \in last.local0
         /\ c.src \in last.remote0 => c.src \in remote
  /\ (last.k # 0 /\ FileCalls # {} /\ last.fault = NoFault
        /\ \A c \in FileCalls : c.existed)
       => (outcome[last.k].fail = "" /\ ~outcome[last.k].escaped
             /\ remote = last.remote0 /\ local = last.local0)
  /\ \A d \in DOMAIN gets : gets[d] <= 1
  /\ \A d \in local : Copies(gets, d) = 1

\* the same record a second time with delete_origin set: its destination is
\* there, no copy is made and the origin stays
C5_Witness ==
  /\ last.k >= 2
  /\ accepted[last.k] = accepted[last.k - 1]
  /\ config.delete_origin
  /\ \E c \in FileCalls : c.existed /\ c.src \in remote /\ Copies(gets, c.dest) = 1
  /\ outcome[last.k].fail = ""

\* C6: when sftp.get fails after writing part of the destination, no file is
\* at the destination when download_file's caller has the failure, the record
\* is failed, and the origin is not deleted.
C6_PartialRemoved ==
  \A c \in FileCalls :
    c.partial =>
      /\ c.dest \notin local
      /\ outcome[last.k].fail \in {"file", "dir"}
      /\ ~c.copied /\ ~c.removed
      /\ c.src \in remote
      /\ Copies(gets, c.dest) = 0

C6_Witness ==
  /\ \E c \in FileCalls : c.partial /\ c.dest \notin local
  /\ last.fault[1] = "getpartial"
  /\ config.delete_origin

\* C7: after a completed byte copy with delete_origin, a failure of the origin
\* cleanup (sftp.remove, or the exists, listdir and rmdir calls of remove_dir)
\* is only logged: the record is not failed and no exception is propagated.
CleanupSites == {"remove", "exists", "prune_listdir", "rmdir"}
C7_CleanupOnlyLogged ==
  (last.k # 0 /\ last.fault[1] \in CleanupSites /\ \E c \in FileCalls : c.copied)
    => (outcome[last.k].fail = "" /\ ~outcome[last.k].escaped)

\* C8: a record whose identity cannot be derived is reported as failed:
\* entry.fail is called for it.
C8_UnderivableFailed ==
  \A k \in Handled : ~Derivable(k) => outcome[k].fail # ""

\* C9: a record whose remote path does not exist gets a failure outcome:
\* entry.fail is called for it.
C9_MissingPathFailed ==
  \A k \in Handled : outcome[k].missing => outcome[k].fail # ""

\* C10: every session is closed exactly once: never twice, at most one is open
\* at a time, and none is open when on_task_download ends, by return or by an
\* exception.
C10_SessionsClosedOnce ==
  /\ \A s \in 1..Len(sessions) : sessions[s].closes <= 1
  /\ Cardinality({ s \in 1..Len(sessions) : sessions[s].closes = 0 }) <= 1
  /\ pc \in {"done", "aborted"} => \A s \in 1..Len(sessions) : sessions[s].closes = 1

\* ---------------------------------------------------------- download_file
TheCall == last.calls[1]
Gone == last.remote0 \ remote

\* C18: download_file removes the remote file only with delete_origin set and
\* after the byte copy of that call completed, so a remote file is gone only
\* when its local destination is there; the directory of the file is removed
\* only after the file was, and only when nothing else was in it; and nothing
\* above that directory is removed, also when it is left empty.
C18_OriginAndOneLevel ==
  last.k # 0 =>
    /\ Len(last.calls) = 1
    /\ TheCall.removed =>
         /\ config.delete_origin
         /\ TheCall.copied /\ ~TheCall.existed /\ ~TheCall.partial
         /\ TheCall.dest \in local
         /\ Copies(gets, TheCall.dest) >= 1
    /\ TheCall.removed <=> TheCall.src \in Gone
    /\ \A p \in Gone : NodeKind(p) = "file" => (p = TheCall.src /\ TheCall.dest \in local)
    /\ Gone \subseteq { TheCall.src, Front(TheCall.src) }
    /\ last.pruned = Gone \ { TheCall.src }
    /\ Front(TheCall.src) \in Gone =>
         /\ TheCall.removed
         /\ Children(Front(TheCall.src), last.remote0) = { TheCall.src }
    /\ \A p \in Above(Front(TheCall.src)) : p \in last.remote0 => p \in remote

\* /r/d/s/c was downloaded and removed and /r/d/s pruned; /r/d, now empty, stays
C18_Witness ==
  /\ last.k # 0
  /\ TheCall.removed
  /\ last.pruned = { Front(TheCall.src) }
  /\ Len(TheCall.src) = 4
  /\ <<"r", "d">> \in remote
  /\ Children(<<"r", "d">>, remote) = {}

\* ---------------------------------------------------------- sftp_connect
InConnect == pc \in { "connect", "connected", "connect_raised" }

\* C17: the sleeps of an sftp_connect call are 15, 20, 25 in that order, one
\* after each failed attempt while tries remain, each RETRY_STEP longer than
\* the one before; the attempt made with no tries left raises without a sleep;
\* a successful attempt returns the session with no sleep and no attempt after
\* it; and the call ends: tries goes down with every retry and is never
\* negative, and the loop is left.
C17_Backoff ==
  InConnect =>
    /\ sleeps = SubSeq(<<15, 20, 25>>, 1, Len(sleeps))
    /\ \A n \in 2..Len(sleeps) : sleeps[n] = sleeps[n - 1] + RETRY_STEP
    /\ tries >= 0
    /\ tries + Len(sleeps) = CONNECT_TRIES
    /\ retry_interval = RETRY_INTERVAL + RETRY_STEP * Len(sleeps)
    /\ pc = "connect" => attempts = Len(sleeps)
    /\ pc = "connect_raised" => (tries = 0 /\ attempts = Len(sleeps) + 1)
    /\ pc = "connected" =>
         (attempts = Len(sleeps) + 1 /\ sessions[Len(sessions)].conf = sftp_config)
C17_Step ==
  /\ (pc = "connect" /\ pc' = "connect") => (tries' < tries /\ attempts' = attempts + 1)
  /\ pc \in { "connected", "connect_raised" } =>
       (pc' # "connect" /\ attempts' <= attempts /\ Len(sleeps') <= Len(sleeps))
C17_BackoffAndTermination ==
  /\ [](C17_Backoff)
  /\ [][C17_Step]_vars
  /\ (pc = "connect") ~> (pc \in { "connected", "connect_raised" })

\* a first call returned its session at the first attempt, without a sleep; a
\* second call failed four times and raised after sleeping 15, 20, 25
C17_Witness ==
  /\ pc = "connect_raised"
  /\ sleeps = <<15, 20, 25>>
  /\ Len(connects) = 2
  /\ connects[1].result = "session"
  /\ Len(sessions) = 1

\* ------------------------------------------------------------- sftp_list
Ended == pc \in { "done", "aborted" }
LastWalk == walks[Len(walks)]

\* C11: one on_task_input invocation opens exactly one session whatever the
\* number of roots, and the session is closed exactly once when the invocation
\* ends: by its return, after a root whose walk raised an IOError, and after an
\* error of another class left the walk.
C11_ListSessionClosedOnce ==
  /\ Len(sessions) <= 1
  /\ pc \in { "roots", "done", "aborted" } => Len(sessions) = 1
  /\ \A n \in 1..Len(sessions) : sessions[n].closes <= 1
  /\ Ended => \A n \in 1..Len(sessions) : sessions[n].closes = 1

\* C13: a root whose walk raises an IOError does not end on_task_input: only
\* an error of another class does; on_task_input returns after every root was
\* walked, and an entry once produced stays in the entries it returns, those
\* of the failing root included.
IsPrefix(a, b) == Len(a) <= Len(b) /\ SubSeq(b, 1, Len(a)) = a
C13_Walked ==
  /\ pc = "aborted" => (walks # <<>> /\ LastWalk.raised = "Exception")
  /\ pc = "roots" => \A k \in 1..Len(walks) : walks[k].raised \in { "", "IOError" }
  /\ pc = "done" => Len(walks) = Len(config.dirs)
  /\ Len(walks) = dir - 1
  /\ \A k \in 1..Len(walks) : walks[k].before <= Len(entries)
  /\ \A k \in 2..Len(walks) : walks[k - 1].before <= walks[k].before
Below(path) ==
  { p \in remote : Len(p) > Len(path) /\ SubSeq(p, 1, Len(path)) = path }
RECURSIVE SumOver(_)
SumOver(S) ==
  IF S = {} THEN 0
  ELSE LET p == CHOOSE x \in S : TRUE IN st_size[p] + SumOver(S \ { p })
FileSum(path) == SumOver({ p \in Below(path) : NodeKind(p) = "file" })
C19_DirSizeIsFileSum ==
  config.get_size =>
    \A n \in 1..Len(entries) :
      (NodeKind(entries[n].url) = "dir" /\ entries[n].content_size # -1)
        => entries[n].content_size = FileSum(entries[n].url)

\* ----------------------------------------------------------- sftp_upload
Uploads == 1..Len(outcome)
\* handle_entry k came to look at the destination: the path rendered, the
\* local source was there, and sftp.lexists returned
Reached(k) ==
  /\ outcome[k].source
  /\ outcome[k].fault[1] # "render"
  /\ outcome[k].fault # <<"lexists", "Exception">>

\* C12: the session on_task_output opened is closed exactly once when it
\* returns, after the last record was handled.
C12_UploadSessionClosed ==
  /\ \A n \in 1..Len(sessions) : sessions[n].closes <= 1
  /\ pc = "done" => (Len(sessions) = 1 /\ sessions[1].closes = 1)

\* C14: a put that raises, an IOError or an error of another class, ends with
\* entry.fail called for the record and handle_entry returning; the local
\* source is not removed and on_task_output goes on with the next record.
C14_PutFailureFailsRecord ==
  \A k \in Uploads :
    outcome[k].put \in { "IOError", "Exception" } =>
      /\ outcome[k].fail # ""
      /\ ~outcome[k].escaped
      /\ outcome[k].remove = "none"
      /\ pc # "aborted"

\* C15: sftp.put is called only when the rendered destination is a directory;
\* a destination that does not exist is created by makedirs first and the file
\* is then put; when makedirs raises, and when the destination is not a
\* directory, the record is failed and put is not called; the same record a
\* second time finds the directory, calls no makedirs and is put again.
C15_PutOnlyIntoDirectory ==
  \A k \in Uploads :
    /\ outcome[k].put # "none" =>
         (accepted[k].to \in remote /\ NodeKind(accepted[k].to) = "dir")
    /\ (Reached(k) /\ ~outcome[k].existed) => outcome[k].made
    /\ (outcome[k].made /\ outcome[k].fault = NoUploadFault
          /\ NodeKind(accepted[k].to) = "dir")
         => (outcome[k].put = "ok" /\ outcome[k].fail = ""
               /\ accepted[k].to \o <<Last(accepted[k].location)>> \in remote)
    /\ outcome[k].fault[1] = "makedirs" =>
         (outcome[k].fail = "makedirs" /\ outcome[k].put = "none"
            /\ ~outcome[k].mutated)
    /\ (Reached(k) /\ outcome[k].existed /\ NodeKind(accepted[k].to) # "dir"
          /\ outcome[k].fault # <<"isdir", "Exception">>)
         => (outcome[k].fail \in { "notdir", "makedirs" } /\ outcome[k].put = "none")
    /\ (k > 1 /\ accepted[k] = accepted[k - 1] /\ outcome[k - 1].put = "ok"
          /\ outcome[k].source /\ outcome[k].fault = NoUploadFault)
         => (~outcome[k].made /\ outcome[k].existed /\ outcome[k].put = "ok"
               /\ outcome[k].fail = "")

\* /l/f is uploaded twice to /r/n/m: the first upload makes the directory, the
\* second finds it
C15_Witness ==
  /\ pc = "done"
  /\ Len(outcome) = 2
  /\ accepted[1] = accepted[2]
  /\ ~outcome[1].existed /\ outcome[1].made /\ outcome[1].put = "ok"
  /\ outcome[2].existed /\ ~outcome[2].made /\ outcome[2].put = "ok"
  /\ outcome[2].fail = ""

\* C16: the local source is removed only with delete_origin set and after the
\* put of that record returned; it is not removed after a put that failed or
\* was not made; and when os.remove raises, the record is not failed.
C16_Removals ==
  \A k \in Uploads :
    /\ outcome[k].remove # "none" => (config.delete_origin /\ outcome[k].put = "ok")
    /\ (config.delete_origin /\ outcome[k].put = "ok") => outcome[k].remove # "none"
    /\ outcome[k].remove = "failed" => (outcome[k].fail = "" /\ ~outcome[k].escaped)
    /\ outcome[k].remove = "removed" => accepted[k].location \notin local
C16_LocalStep ==
  local' # local =>
    /\ config.delete_origin
    /\ local' = local \ { accepted[i].location }
    /\ outcome'[i].put = "ok"
C16_OriginDeletedAfterPut == [](C16_Removals) /\ [][C16_LocalStep]_vars

\* /l/f is put and removed; then /l/g is put, os.remove raises, and the record
\* is not failed
C16_Witness ==
  /\ pc = "done"
  /\ Len(outcome) = 2
  /\ outcome[1].remove = "removed"
  /\ outcome[2].remove = "failed" /\ outcome[2].fail = "" /\ outcome[2].put = "ok"
  /\ local = { accepted[2].location }

\* C20: a record whose local source is missing (and whose path rendered) is
\* skipped: entry.fail is not called, no makedirs and no put is issued, the
\* server is left as it was, and the next records are handled.
C20_MissingSourceSkipped ==
  /\ \A k \in Uploads :
       (~outcome[k].source /\ outcome[k].fault[1] # "render") =>
         /\ outcome[k].skipped
         /\ outcome[k].fail = "" /\ ~outcome[k].escaped
         /\ ~outcome[k].made /\ outcome[k].put = "none" /\ outcome[k].remove = "none"
         /\ ~outcome[k].mutated
  /\ \A k \in Uploads : outcome[k].skipped => ~outcome[k].source
  /\ pc = "aborted" => outcome[Len(outcome)].escaped
  /\ pc = "done" => Len(outcome) = Len(accepted)

\* /l/g is missing and skipped; the next record is uploaded
C20_Witness ==
  /\ pc = "done"
  /\ Len(outcome) = 2
  /\ outcome[1].skipped /\ outcome[1].fail = ""
  /\ outcome[2].put = "ok"
  /\ remote = Nodes \cup { accepted[2].to \o <<Last(accepted[2].location)>> }

====
